---- MODULE Spec2Model ----
(***************************************************************************)
(* A model of dixit.game.models.game.Game: the derived game status, the    *)
(* turn rotation of add_round, the dealing done on add_player / add_round  *)
(* and the scoring of complete_round.                                      *)
(*                                                                         *)
(* The database tables are the state: `players`, `rounds` and `plays` are  *)
(* the rows of Player, Round and Play of one game (a row's id is its       *)
(* index / the pair it is keyed by), `pool` is the set of card tokens no   *)
(* hand and no play holds.  Round, Play, Player and the settings module    *)
(* are not part of game.py; they are modelled from the specification.      *)
(***************************************************************************)
EXTENDS Integers, Sequences, FiniteSets, TLC

VARIABLES
    created,    \* whether the Game row exists
    settings,   \* dixit.settings: the four scoring options
    players,    \* Seq of [order, owner, score, hand], in join order
    rounds,     \* Seq of [number, turn], in creation order; turn is a player id
    plays,      \* set of [round, player, card_provided, card_chosen]
    pool,       \* card tokens still available to deal
    lateJoin,   \* history: a player joined after round 1 was created
    nAdded,     \* history: number of add_round calls that returned a round
    last,       \* history: the last call and what it returned / raised
    origin,     \* history: how the game was made: "create" or "new_game"
    pending     \* add_round calls under way: what each has read so far

vars == <<created, settings, players, rounds, plays, pool, lateJoin, nAdded,
          last, origin, pending>>

game == <<players, rounds, plays, pool>>

\* ------------------------------------------------------------------ bounds
MaxPlayers == 3
MaxRounds == 3
DeckSize == 4
MaxScore == 6

\* ------------------------------------------------------------- configuration
GAME_HAND_SIZE == 1

SettingsChoices ==
    { [guess |-> 3, confused |-> 1, story |-> 3, max |-> 5],
      [guess |-> 2, confused |-> 1, story |-> 3, max |-> 2] }

GAME_GUESS_SCORE == settings.guess
GAME_CONFUSED_GUESS_SCORE == settings.confused
GAME_STORY_SCORE == settings.story
GAME_MAX_ROUND_SCORE == settings.max

\* The requests that may run add_round at the same time.
Callers == {"a", "b"}
Idle == [at |-> "idle"]

Cards == 1..DeckSize
NoCard == 0

Min(a, b) == IF a < b THEN a ELSE b

\* ------------------------------------------------------------ collaborators
PlayerIds == 1..Len(players)
RoundIds == 1..Len(rounds)

PlaysOf(r) == {p \in plays : p.round = r}

RoundStatusOf(ps, r) ==
    LET rp == {p \in ps : p.round = r}
        storyteller == rounds[r].turn
    IN  IF rp = {} THEN "new"
        ELSE IF /\ \A q \in PlayerIds : \E p \in rp : p.player = q
                /\ \A p \in rp : p.player # storyteller => p.card_chosen # NoCard
             THEN "complete"
             ELSE "in_progress"

RoundStatus(r) == RoundStatusOf(plays, r)

Lowest(S, n) == {c \in S : Cardinality({d \in S : d < c}) < n}

\* The deck's pick of n tokens.  Tokens are opaque and interchangeable, so
\* the pick is taken to be the n lowest of the pool.
Picks(avail, n) == {Lowest(avail, n)}

RECURSIVE CardsNeeded(_, _)
CardsNeeded(ps, i) ==
    IF i > Len(ps) THEN 0
    ELSE (GAME_HAND_SIZE - Cardinality(ps[i].hand)) + CardsNeeded(ps, i + 1)

RECURSIVE HandOut(_, _, _)
HandOut(ps, got, i) ==
    IF i > Len(ps) THEN ps
    ELSE LET mine == Lowest(got, GAME_HAND_SIZE - Cardinality(ps[i].hand))
         IN  HandOut([ps EXCEPT ![i].hand = @ \cup mine], got \ mine, i + 1)

\* Round.deal(): tops every seated player's hand up to the hand size with
\* one reservation from the pool; DeckExhausted when the pool is too small.
DealFails(ps, avail) == CardsNeeded(ps, 1) > Cardinality(avail)

\* Mutant: the tokens handed out are not marked as reserved.
Deal_KeepsPool(ps, avail, got) ==
    [players |-> HandOut(ps, got, 1), pool |-> avail]

Deal(ps, avail, got) ==
    [players |-> HandOut(ps, got, 1), pool |-> avail \ got]

\* ------------------------------------------------------------ Game properties
current_round ==
    IF rounds = << >> THEN 0
    ELSE CHOOSE r \in RoundIds : \A s \in RoundIds : rounds[s].number <= rounds[r].number

all_rounds_complete == \A r \in RoundIds : RoundStatus(r) = "complete"

\* Mutant: the rounds are looked at before the players.
status_RoundsFirst ==
    IF current_round = 0 \/ all_rounds_complete THEN "finished"
    ELSE IF Len(players) = 0 THEN "abandoned"
    ELSE IF rounds[current_round].number = 0 /\ RoundStatus(current_round) = "new"
         THEN "new"
    ELSE "ongoing"

\* Mutant: `and` in place of `or` in the FINISHED branch.
status_AndForOr ==
    IF Len(players) = 0 THEN "abandoned"
    ELSE IF current_round = 0 /\ all_rounds_complete THEN "finished"
    ELSE IF rounds[current_round].number = 0 /\ RoundStatus(current_round) = "new"
         THEN "new"
    ELSE "ongoing"

\* Mutant: NEW whenever the current round is new, whatever its number.
status_IgnoresNumber ==
    IF Len(players) = 0 THEN "abandoned"
    ELSE IF current_round = 0 \/ all_rounds_complete THEN "finished"
    ELSE IF RoundStatus(current_round) = "new" THEN "new"
    ELSE "ongoing"

status ==
    IF Len(players) = 0 THEN "abandoned"
    ELSE IF current_round = 0 \/ all_rounds_complete THEN "finished"
    ELSE IF rounds[current_round].number = 0 /\ RoundStatus(current_round) = "new"
         THEN "new"
    ELSE "ongoing"

storyteller == rounds[current_round].turn

\* ------------------------------------------------------------------- actions
Init ==
    /\ created = FALSE
    /\ settings \in SettingsChoices
    /\ players = << >>
    /\ rounds = << >>
    /\ plays = {}
    /\ pool = Cards
    /\ lateJoin = FALSE
    /\ nAdded = 0
    /\ last = [op |-> "none", ret |-> "none"]
    /\ origin = "none"
    /\ pending = [t \in Callers |-> Idle]

NewPlayer(order, owner) ==
    [order |-> order, owner |-> owner, score |-> 0, hand |-> {}]

\* Mutant: the rotation forgets the + 1.
AddRoundOn_NoAdvance(ps, rs, avail, cur, got) ==
    LET nplayers == Len(ps)
        number == IF cur = 0 THEN 0 ELSE rs[cur].number + 1
        turn == IF cur = 0 THEN 0 ELSE (ps[rs[cur].turn].order) % nplayers
        found == {q \in 1..Len(ps) : ps[q].order = turn}
        same == [players |-> ps, rounds |-> rs, pool |-> avail]
    IN  IF nplayers = 0 THEN same @@ [ret |-> "None"]
        ELSE IF Cardinality(found) # 1 THEN same @@ [ret |-> "DoesNotExist"]
        ELSE IF DealFails(ps, avail) THEN same @@ [ret |-> "None"]
        ELSE LET player == CHOOSE q \in found : TRUE
                 dealt == Deal(ps, avail, got)
             IN  [players |-> dealt.players,
                  rounds |-> Append(rs, [number |-> number, turn |-> player]),
                  pool |-> dealt.pool,
                  ret |-> "round"]

\* Mutant: the round is saved before the deal, so a failed deal leaves it.
AddRoundOn_SaveFirst(ps, rs, avail, cur, got) ==
    LET nplayers == Len(ps)
        number == IF cur = 0 THEN 0 ELSE rs[cur].number + 1
        turn == IF cur = 0 THEN 0 ELSE (ps[rs[cur].turn].order + 1) % nplayers
        found == {q \in 1..Len(ps) : ps[q].order = turn}
        same == [players |-> ps, rounds |-> rs, pool |-> avail]
    IN  IF nplayers = 0 THEN same @@ [ret |-> "None"]
        ELSE IF Cardinality(found) # 1 THEN same @@ [ret |-> "DoesNotExist"]
        ELSE LET player == CHOOSE q \in found : TRUE
                 saved == Append(rs, [number |-> number, turn |-> player])
                 dealt == Deal(ps, avail, got)
             IN  IF DealFails(ps, avail)
                 THEN [players |-> ps, rounds |-> saved, pool |-> avail, ret |-> "None"]
                 ELSE [players |-> dealt.players, rounds |-> saved,
                       pool |-> dealt.pool, ret |-> "round"]

\* Mutant: GameDeckExhausted is not caught.
AddRoundOn_NoCatch(ps, rs, avail, cur, got) ==
    LET nplayers == Len(ps)
        number == IF cur = 0 THEN 0 ELSE rs[cur].number + 1
        turn == IF cur = 0 THEN 0 ELSE (ps[rs[cur].turn].order + 1) % nplayers
        found == {q \in 1..Len(ps) : ps[q].order = turn}
        same == [players |-> ps, rounds |-> rs, pool |-> avail]
    IN  IF nplayers = 0 THEN same @@ [ret |-> "None"]
        ELSE IF Cardinality(found) # 1 THEN same @@ [ret |-> "DoesNotExist"]
        ELSE IF DealFails(ps, avail) THEN same @@ [ret |-> "DeckExhausted"]
        ELSE LET player == CHOOSE q \in found : TRUE
                 dealt == Deal(ps, avail, got)
             IN  [players |-> dealt.players,
                  rounds |-> Append(rs, [number |-> number, turn |-> player]),
                  pool |-> dealt.pool,
                  ret |-> "round"]

\* add_round on the rows ps / rs / avail; `got` is the deck's pick.
\* The result is the rows afterwards and what the call returns.
AddRoundOn(ps, rs, avail, cur, got) ==
    LET nplayers == Len(ps)
        number == IF cur = 0 THEN 0 ELSE rs[cur].number + 1
        turn == IF cur = 0 THEN 0 ELSE (ps[rs[cur].turn].order + 1) % nplayers
        found == {q \in 1..Len(ps) : ps[q].order = turn}
        same == [players |-> ps, rounds |-> rs, pool |-> avail]
    IN  IF nplayers = 0 THEN same @@ [ret |-> "None"]
        ELSE IF Cardinality(found) # 1 THEN same @@ [ret |-> "DoesNotExist"]
        ELSE IF DealFails(ps, avail) THEN same @@ [ret |-> "None"]
        ELSE LET player == CHOOSE q \in found : TRUE
                 dealt == Deal(ps, avail, got)
             IN  [players |-> dealt.players,
                  rounds |-> Append(rs, [number |-> number, turn |-> player]),
                  pool |-> dealt.pool,
                  ret |-> "round"]

GotChoices(ps, avail) ==
    IF DealFails(ps, avail) THEN {{}} ELSE Picks(avail, CardsNeeded(ps, 1))

CreateGame ==
    /\ ~created
    /\ created' = TRUE
    /\ last' = [op |-> "create", ret |-> "game"]
    /\ origin' = "create"
    /\ UNCHANGED <<settings, players, rounds, plays, pool, lateJoin, nAdded, pending>>

\* Mutant: the first round is not added.
NewGame_NoRound ==
    /\ ~created
    /\ created' = TRUE
    /\ players' = <<NewPlayer(0, TRUE)>>
    /\ last' = [op |-> "new_game", ret |-> "game"]
    /\ origin' = "new_game"
    /\ UNCHANGED <<settings, rounds, plays, pool, lateJoin, nAdded, pending>>

NewGame ==
    /\ ~created
    /\ LET ps == <<NewPlayer(0, TRUE)>> IN
       \E got \in GotChoices(ps, pool) :
         LET res == AddRoundOn(ps, << >>, pool, 0, got) IN
         /\ created' = TRUE
         /\ players' = res.players
         /\ rounds' = res.rounds
         /\ pool' = res.pool
         /\ nAdded' = IF res.ret = "round" THEN nAdded + 1 ELSE nAdded
         /\ last' = [op |-> "new_game", ret |-> "game"]
    /\ origin' = "new_game"
    /\ UNCHANGED <<settings, plays, lateJoin, pending>>

AddRound ==
    /\ created
    /\ Len(rounds) < MaxRounds
    /\ \E got \in GotChoices(players, pool) :
         LET res == AddRoundOn(players, rounds, pool, current_round, got) IN
         /\ players' = res.players
         /\ rounds' = res.rounds
         /\ pool' = res.pool
         /\ nAdded' = IF res.ret = "round" THEN nAdded + 1 ELSE nAdded
         /\ last' = [op |-> "add_round", ret |-> res.ret]
    /\ UNCHANGED <<created, settings, plays, lateJoin, origin, pending>>

\* Mutant: the order index is the player count after the join.
AddPlayerOn_OrderFromOne(ps, avail, cur, curStatus, got) ==
    LET order == Len(ps) + 1
        seated == Append(ps, NewPlayer(order, FALSE))
    IN  IF cur # 0 /\ curStatus = "new"
        THEN IF DealFails(seated, avail)
             THEN [players |-> seated, pool |-> avail, ret |-> "DeckExhausted"]
             ELSE Deal(seated, avail, got) @@ [ret |-> "player"]
        ELSE [players |-> seated, pool |-> avail, ret |-> "player"]

\* Mutant: the current round deals whatever its status.
AddPlayerOn_DealsAlways(ps, avail, cur, curStatus, got) ==
    LET order == Len(ps)
        seated == Append(ps, NewPlayer(order, FALSE))
    IN  IF cur # 0
        THEN IF DealFails(seated, avail)
             THEN [players |-> seated, pool |-> avail, ret |-> "DeckExhausted"]
             ELSE Deal(seated, avail, Lowest(avail, CardsNeeded(seated, 1)))
                    @@ [ret |-> "player"]
        ELSE [players |-> seated, pool |-> avail, ret |-> "player"]

\* add_player on the rows ps / avail: the player is saved first, then the
\* current round, if still new, deals.
AddPlayerOn(ps, avail, cur, curStatus, got) ==
    LET order == Len(ps)
        seated == Append(ps, NewPlayer(order, FALSE))
    IN  IF cur # 0 /\ curStatus = "new"
        THEN IF DealFails(seated, avail)
             THEN [players |-> seated, pool |-> avail, ret |-> "DeckExhausted"]
             ELSE Deal(seated, avail, got) @@ [ret |-> "player"]
        ELSE [players |-> seated, pool |-> avail, ret |-> "player"]

AddPlayer ==
    /\ created
    /\ Len(players) < MaxPlayers
    /\ LET seated == Append(players, NewPlayer(Len(players), FALSE))
           cur == current_round
           st == IF cur = 0 THEN "none" ELSE RoundStatus(cur)
       IN  \E got \in GotChoices(seated, pool) :
             LET res == AddPlayerOn(players, pool, cur, st, got) IN
             /\ players' = res.players
             /\ pool' = res.pool
             /\ last' = [op |-> "add_player", ret |-> res.ret]
    /\ lateJoin' = (lateJoin \/ Len(rounds) >= 2)
    /\ UNCHANGED <<created, settings, rounds, plays, nAdded, origin, pending>>

\* A seated player submits a card of their hand to the current round.
Provide ==
    /\ created
    /\ current_round # 0
    /\ \E q \in PlayerIds : \E c \in players[q].hand :
         /\ ~\E p \in PlaysOf(current_round) : p.player = q
         /\ q # storyteller => \E p \in PlaysOf(current_round) : p.player = storyteller
         /\ plays' = plays \cup {[round |-> current_round, player |-> q,
                                  card_provided |-> c, card_chosen |-> NoCard]}
         /\ players' = [players EXCEPT ![q].hand = @ \ {c}]
    /\ last' = [op |-> "provide", ret |-> "play"]
    /\ UNCHANGED <<created, settings, rounds, pool, lateJoin, nAdded, origin, pending>>

\* Once every seated player has submitted a card, a player other than the
\* storyteller guesses one of the cards the other players submitted.
Vote ==
    /\ created
    /\ current_round # 0
    /\ \A q \in PlayerIds : \E p \in PlaysOf(current_round) : p.player = q
    /\ \E p \in PlaysOf(current_round) : \E o \in PlaysOf(current_round) :
         /\ p.player # storyteller
         /\ p.card_chosen = NoCard
         /\ o.player # p.player
         /\ plays' = (plays \ {p}) \cup {[p EXCEPT !.card_chosen = o.card_provided]}
    /\ last' = [op |-> "vote", ret |-> "play"]
    /\ UNCHANGED <<created, settings, players, rounds, pool, lateJoin, nAdded, origin, pending>>

\* Mutant: a wrong guess credits the guesser, not the owner of the card.
ScoreStep_CreditsGuesser(play, rp, story_card, acc) ==
    LET chosen == {o \in rp : o.card_provided = play.card_chosen}
    IN  IF play.card_chosen = story_card
        THEN [acc EXCEPT !.scores[play.player] = @ + GAME_GUESS_SCORE,
                         !.guesses[play.player] = TRUE]
        ELSE IF Cardinality(chosen) # 1 THEN [acc EXCEPT !.err = TRUE]
        ELSE [acc EXCEPT !.scores[play.player] = @ + GAME_CONFUSED_GUESS_SCORE]

\* Mutant: a wrong guess credits the storyteller.
ScoreStep_CreditsStoryteller(play, rp, story_card, acc) ==
    LET chosen == {o \in rp : o.card_provided = play.card_chosen}
        told == CHOOSE o \in rp : o.card_provided = story_card
    IN  IF play.card_chosen = story_card
        THEN [acc EXCEPT !.scores[play.player] = @ + GAME_GUESS_SCORE,
                         !.guesses[play.player] = TRUE]
        ELSE IF Cardinality(chosen) # 1 THEN [acc EXCEPT !.err = TRUE]
        ELSE [acc EXCEPT !.scores[told.player] = @ + GAME_CONFUSED_GUESS_SCORE]

\* The loop over players_plays of complete_round: ScoreStep is its body,
\* ScoreLoop gives `scores` and `guesses` after the plays of `todo` have been
\* looked at; err when a lookup of the chosen card's play finds no single play.
ScoreStep(play, rp, story_card, acc) ==
    LET chosen == {o \in rp : o.card_provided = play.card_chosen}
    IN  IF play.card_chosen = story_card
        THEN [acc EXCEPT !.scores[play.player] = @ + GAME_GUESS_SCORE,
                         !.guesses[play.player] = TRUE]
        ELSE IF Cardinality(chosen) # 1 THEN [acc EXCEPT !.err = TRUE]
        ELSE LET chosen_play == CHOOSE o \in chosen : TRUE
             IN  [acc EXCEPT !.scores[chosen_play.player] =
                                 @ + GAME_CONFUSED_GUESS_SCORE]

RECURSIVE ScoreLoop(_, _, _, _)
ScoreLoop(todo, rp, story_card, acc) ==
    IF todo = {} \/ acc.err THEN acc
    ELSE LET play == CHOOSE p \in todo : TRUE
         IN  ScoreLoop(todo \ {play}, rp, story_card,
                       ScoreStep(play, rp, story_card, acc))

\* Mutant: the storyteller scores as soon as anyone guessed right.
RoundScores_AnyOnly(ps, rp, teller) ==
    LET players_plays == {p \in rp : p.player # teller}
        story_card == (CHOOSE p \in rp : p.player = teller).card_provided
        start == [scores |-> [q \in 1..Len(ps) |-> 0],
                  guesses |-> [q \in {p.player : p \in players_plays} |-> FALSE],
                  err |-> FALSE]
        looped == ScoreLoop(players_plays, rp, story_card, start)
        voters == DOMAIN looped.guesses
        any == \E q \in voters : looped.guesses[q]
    IN  IF any
        THEN [looped EXCEPT !.scores[teller] = GAME_STORY_SCORE]
        ELSE looped

\* Mutant: the storyteller scores unless everyone guessed right.
RoundScores_NotAllOnly(ps, rp, teller) ==
    LET players_plays == {p \in rp : p.player # teller}
        story_card == (CHOOSE p \in rp : p.player = teller).card_provided
        start == [scores |-> [q \in 1..Len(ps) |-> 0],
                  guesses |-> [q \in {p.player : p \in players_plays} |-> FALSE],
                  err |-> FALSE]
        looped == ScoreLoop(players_plays, rp, story_card, start)
        voters == DOMAIN looped.guesses
        all == \A q \in voters : looped.guesses[q]
    IN  IF ~all
        THEN [looped EXCEPT !.scores[teller] = GAME_STORY_SCORE]
        ELSE looped

\* The round's `scores` dictionary (0 for a player it has no key for).
RoundScores(ps, rp, teller) ==
    LET players_plays == {p \in rp : p.player # teller}
        story_card == (CHOOSE p \in rp : p.player = teller).card_provided
        start == [scores |-> [q \in 1..Len(ps) |-> 0],
                  guesses |-> [q \in {p.player : p \in players_plays} |-> FALSE],
                  err |-> FALSE]
        looped == ScoreLoop(players_plays, rp, story_card, start)
        voters == DOMAIN looped.guesses
        any == \E q \in voters : looped.guesses[q]
        all == \A q \in voters : looped.guesses[q]
    IN  IF any /\ ~all
        THEN [looped EXCEPT !.scores[teller] = GAME_STORY_SCORE]
        ELSE looped

\* Mutant: the cap is applied to the total, not to the round's points.
ApplyScores_CumulativeCap(ps, scores) ==
    [q \in 1..Len(ps) |->
        [ps[q] EXCEPT !.score = Min(GAME_MAX_ROUND_SCORE, @ + scores[q])]]

\* Mutant: the round's points replace the total.
ApplyScores_Assign(ps, scores) ==
    [q \in 1..Len(ps) |->
        [ps[q] EXCEPT !.score = Min(GAME_MAX_ROUND_SCORE, scores[q])]]

ApplyScores(ps, scores) ==
    [q \in 1..Len(ps) |->
        [ps[q] EXCEPT !.score = @ + Min(GAME_MAX_ROUND_SCORE, scores[q])]]

\* Mutant: only a round without any play is refused.
CompleteRoundOn_OnlyNew(ps, rp, cur, curStatus, teller) ==
    IF cur = 0 THEN [players |-> ps, ret |-> "AttributeError"]
    ELSE IF curStatus = "new" THEN [players |-> ps, ret |-> "RoundIncomplete"]
    ELSE IF Cardinality({p \in rp : p.player = teller}) # 1
         THEN [players |-> ps, ret |-> "DoesNotExist"]
    ELSE LET res == RoundScores(ps, rp, teller)
         IN  IF res.err THEN [players |-> ps, ret |-> "DoesNotExist"]
             ELSE [players |-> ApplyScores(ps, res.scores), ret |-> "game"]

\* complete_round on the rows ps, with rp the plays of the current round
\* cur, curStatus its status and teller its storyteller.
CompleteRoundOn(ps, rp, cur, curStatus, teller) ==
    IF cur = 0 THEN [players |-> ps, ret |-> "AttributeError"]
    ELSE IF curStatus # "complete" THEN [players |-> ps, ret |-> "RoundIncomplete"]
    ELSE IF Cardinality({p \in rp : p.player = teller}) # 1
         THEN [players |-> ps, ret |-> "DoesNotExist"]
    ELSE LET res == RoundScores(ps, rp, teller)
         IN  IF res.err THEN [players |-> ps, ret |-> "DoesNotExist"]
             ELSE [players |-> ApplyScores(ps, res.scores), ret |-> "game"]

CompleteRound ==
    /\ created
    /\ LET cur == current_round
           st == IF cur = 0 THEN "none" ELSE RoundStatus(cur)
           teller == IF cur = 0 THEN 0 ELSE storyteller
           res == CompleteRoundOn(players, PlaysOf(cur), cur, st, teller)
       IN  /\ \A q \in PlayerIds : res.players[q].score <= MaxScore
           /\ players' = res.players
           /\ last' = [op |-> "complete_round", ret |-> res.ret]
    /\ UNCHANGED <<created, settings, rounds, plays, pool, lateJoin, nAdded, origin, pending>>

Next ==
    \/ CreateGame
    \/ NewGame
    \/ AddPlayer
    \/ AddRound
    \/ Provide
    \/ Vote
    \/ CompleteRound

Spec == Init /\ [][Next]_vars

\* ------------------------------------------------- add_round, interleaved
\* Two requests may run add_round at once; only the deal (with the save
\* that follows it) is serialized.  BeginAddRound is what a call reads and
\* computes before the deal, FinishAddRound the deal and the save.  When
\* two rounds carry the highest number, current_round is one of them.
BeginAddRound(t) ==
    /\ created
    /\ pending[t] = Idle
    /\ Len(rounds) + Cardinality({u \in Callers : pending[u] # Idle}) < MaxRounds
    /\ LET nplayers == Len(players)
           cur == current_round
           number == IF cur = 0 THEN 0 ELSE rounds[cur].number + 1
           turn == IF cur = 0 THEN 0
                   ELSE (players[rounds[cur].turn].order + 1) % nplayers
           found == {q \in PlayerIds : players[q].order = turn}
       IN  IF nplayers = 0
           THEN /\ last' = [op |-> "add_round", ret |-> "None"]
                /\ UNCHANGED pending
           ELSE IF Cardinality(found) # 1
           THEN /\ last' = [op |-> "add_round", ret |-> "DoesNotExist"]
                /\ UNCHANGED pending
           ELSE /\ pending' = [pending EXCEPT ![t] =
                                 [at |-> "deal", number |-> number,
                                  turn |-> CHOOSE q \in found : TRUE]]
                /\ UNCHANGED last
    /\ UNCHANGED <<created, settings, players, rounds, plays, pool, lateJoin,
                   nAdded, origin>>

FinishAddRound(t) ==
    /\ pending[t] # Idle
    /\ pending' = [pending EXCEPT ![t] = Idle]
    /\ IF DealFails(players, pool)
       THEN /\ last' = [op |-> "add_round", ret |-> "None"]
            /\ UNCHANGED <<players, rounds, pool, nAdded>>
       ELSE \E got \in GotChoices(players, pool) :
              LET dealt == Deal(players, pool, got) IN
              /\ players' = dealt.players
              /\ pool' = dealt.pool
              /\ rounds' = Append(rounds, [number |-> pending[t].number,
                                           turn |-> pending[t].turn])
              /\ nAdded' = nAdded + 1
              /\ last' = [op |-> "add_round", ret |-> "round"]
    /\ UNCHANGED <<created, settings, plays, lateJoin, origin>>

NextConc ==
    \/ NewGame
    \/ AddPlayer
    \/ Provide
    \/ \E t \in Callers : BeginAddRound(t)
    \/ \E t \in Callers : FinishAddRound(t)

SpecConc == Init /\ [][NextConc]_vars

\* ==================================================================== claims

C2_AllCompleteIsFinished ==
    (created /\ Len(players) >= 1 /\ Len(rounds) >= 1 /\ all_rounds_complete)
        => status = "finished"

\* Right after complete_round scored round 0, the only round, for two players.
C2_Witness ==
    /\ Len(players) >= 2 /\ Len(rounds) = 1 /\ all_rounds_complete
    /\ last = [op |-> "complete_round", ret |-> "game"]
    /\ status = "finished"

TurnIsNumberModPlayers ==
    \A r \in RoundIds :
        players[rounds[r].turn].order = rounds[r].number % Len(players)

\* C3 as claimed: the storyteller of round i is the player of order
\* i mod P after any sequence of add_round and add_player calls.
C3_TurnRotationAnySequence == created => TurnIsNumberModPlayers

\* C3 amended: the storyteller of round i is the player of order i mod P
\* provided no player joined after round 1 was created.
C3_TurnRotationNoLateJoin == (created /\ ~lateJoin) => TurnIsNumberModPlayers

\* Two players and three rounds: the turn has wrapped around.
C3_Witness ==
    /\ ~lateJoin /\ Len(players) = 2 /\ Len(rounds) = 3
    /\ players[rounds[3].turn].order = 0
    /\ players[rounds[2].turn].order = 1

\* C4: the round numbers are exactly 0..k, without gap or duplicate, where
\* k + 1 is the number of add_round calls that returned a round.
C4_RoundNumbersContiguous ==
    /\ Len(rounds) = nAdded
    /\ {rounds[r].number : r \in RoundIds} = 0..(nAdded - 1)
    /\ \A r, t \in RoundIds : rounds[r].number = rounds[t].number => r = t

\* add_round failed on an exhausted deck after two rounds were created.
C4_Witness ==
    /\ nAdded = 2 /\ Len(rounds) = 2 /\ Len(players) > 0
    /\ last = [op |-> "add_round", ret |-> "None"]

AddRoundDealFails ==
    last'.op = "add_round" /\ Len(players) > 0 /\ DealFails(players, pool)

\* C5: when the deal of add_round fails with DeckExhausted, add_round
\* returns no round, raises nothing and leaves players (scores, hands),
\* rounds, plays and the pool as they were.
C5_FailedAddRoundChangesNothing ==
    [][AddRoundDealFails => (last'.ret = "None" /\ UNCHANGED game)]_vars

\* add_round returned None for seated players the pool cannot serve.
C5_Witness ==
    /\ last = [op |-> "add_round", ret |-> "None"]
    /\ Len(players) > 0 /\ DealFails(players, pool)
    /\ Len(rounds) >= 1

Hands == UNION {players[q].hand : q \in PlayerIds}
Provided == {p.card_provided : p \in plays}

NoTokenTwice ==
    /\ \A q, t \in PlayerIds : q # t => players[q].hand \cap players[t].hand = {}
    /\ \A p, o \in plays : p.card_provided = o.card_provided =>
            (p.round = o.round /\ p.player = o.player)
    /\ Hands \cap Provided = {}
    /\ pool \cap (Hands \cup Provided) = {}

\* The tokens a step adds to a hand come out of the pool, each to one hand.
DealtFromPool ==
    LET old(q) == IF q \in PlayerIds THEN players[q].hand ELSE {}
        new(q) == players'[q].hand \ old(q)
        ids == 1..Len(players')
    IN  /\ \A q \in ids : new(q) \subseteq pool
        /\ \A q, t \in ids : q # t => new(q) \cap new(t) = {}
        /\ pool' = pool \ UNION {new(q) : q \in ids}

AddPlayerDealFails ==
    /\ last'.op = "add_player"
    /\ current_round # 0 /\ RoundStatus(current_round) = "new"
    /\ DealFails(Append(players, NewPlayer(Len(players), FALSE)), pool)

ExceedingDealFails ==
    /\ AddRoundDealFails => (last'.ret = "None" /\ pool' = pool)
    /\ AddPlayerDealFails =>
          /\ last'.ret = "DeckExhausted" /\ pool' = pool
          /\ \A q \in 1..Len(players') : players'[q].hand \subseteq Hands

\* C6: no token is ever in two hands, in a hand and a play, or handed out
\* again: every deal takes pairwise distinct tokens out of the pool, and a
\* deal for more tokens than remain fails and leaves the pool alone.
C6_TokensDealtOnce ==
    []NoTokenTwice /\ [][DealtFromPool /\ ExceedingDealFails]_vars

\* add_player met an exhausted deck while tokens sit in hands and in plays.
C6_Witness ==
    /\ last = [op |-> "add_player", ret |-> "DeckExhausted"]
    /\ Provided # {} /\ Hands # {} /\ pool = {}

\* C7: complete_round on a current round that is not COMPLETE raises
\* RoundIncomplete and changes no player, round or play.
C7_IncompleteRoundNotScored ==
    [][(/\ last'.op = "complete_round"
        /\ current_round # 0
        /\ RoundStatus(current_round) # "complete")
       => (last'.ret = "RoundIncomplete" /\ UNCHANGED game)]_vars

\* complete_round was refused on a round where a guess is already in.
C7_Witness ==
    /\ last = [op |-> "complete_round", ret |-> "RoundIncomplete"]
    /\ \E p \in PlaysOf(current_round) : p.card_chosen # NoCard
    /\ \E p \in PlaysOf(current_round) :
          p.player # storyteller /\ p.card_chosen = NoCard

\* The scoring rules, stated on the plays of the current round.
PlayOfPlayer(q) == CHOOSE p \in PlaysOf(current_round) : p.player = q
StoryCard == PlayOfPlayer(storyteller).card_provided
Guessers == PlayerIds \ {storyteller}
GuessedRight(q) == PlayOfPlayer(q).card_chosen = StoryCard
FooledBy(q) ==
    Cardinality({p \in PlaysOf(current_round) :
                    p.card_chosen = PlayOfPlayer(q).card_provided})
SomeButNotAll ==
    /\ \E q \in Guessers : GuessedRight(q)
    /\ \E q \in Guessers : ~GuessedRight(q)
GuesserDelta(q) ==
    (IF GuessedRight(q) THEN GAME_GUESS_SCORE ELSE 0)
        + GAME_CONFUSED_GUESS_SCORE * FooledBy(q)
RoundDelta(q) ==
    IF q = storyteller
    THEN (IF SomeButNotAll THEN GAME_STORY_SCORE ELSE 0)
    ELSE GuesserDelta(q)

Scored == last'.op = "complete_round" /\ last'.ret = "game"
JustScored == last = [op |-> "complete_round", ret |-> "game"]
Gain(q) == players'[q].score - players[q].score

\* C8: complete_round adds to every player other than the storyteller
\* guess_score if the player chose the story card, plus confused_guess_score
\* for every play that chose the player's card, capped at max_round_score.
C8_GuesserPoints ==
    [][Scored => \A q \in Guessers :
            Gain(q) = Min(GAME_MAX_ROUND_SCORE, GuesserDelta(q))]_vars

\* A scored round where one player guessed right and fooled another.
C8_Witness ==
    /\ JustScored
    /\ \E q \in Guessers :
          /\ GuessedRight(q) /\ FooledBy(q) >= 1
          /\ players[q].score = Min(GAME_MAX_ROUND_SCORE,
                                    GAME_GUESS_SCORE + GAME_CONFUSED_GUESS_SCORE)

\* C9: complete_round adds story_score (capped) to the storyteller exactly
\* when at least one but not all other players chose the story card, and
\* nothing otherwise.
C9_StorytellerPoints ==
    [][Scored => Gain(storyteller) =
            (IF SomeButNotAll
             THEN Min(GAME_MAX_ROUND_SCORE, GAME_STORY_SCORE) ELSE 0)]_vars

\* A scored round where one of two guessers was right.
C9_Witness ==
    /\ JustScored /\ SomeButNotAll
    /\ players[storyteller].score = Min(GAME_MAX_ROUND_SCORE, GAME_STORY_SCORE)

\* C10: one complete_round call adds min(max_round_score, delta) to every
\* player, delta being the points the player earned in the round; never
\* more than max_round_score, whatever the player's total already is.
C10_CapPerRound ==
    [][Scored => \A q \in PlayerIds :
            /\ Gain(q) = Min(GAME_MAX_ROUND_SCORE, RoundDelta(q))
            /\ Gain(q) <= GAME_MAX_ROUND_SCORE]_vars

\* A player earned more than the cap, twice: the total is twice the cap.
C10_Witness ==
    /\ JustScored
    /\ \E q \in PlayerIds :
          /\ RoundDelta(q) > GAME_MAX_ROUND_SCORE
          /\ players[q].score = 2 * GAME_MAX_ROUND_SCORE

\* C11: a second complete_round on a round already scored, with no call in
\* between, leaves every player's score as the first call left it.
C11_NoDoubleAward ==
    [][(JustScored /\ Scored) =>
          \A q \in PlayerIds : players'[q].score = players[q].score]_vars

C13_OrderIsJoinOrder ==
    origin = "new_game" =>
        /\ \A q \in PlayerIds :
              players[q].order = q - 1 /\ (players[q].owner <=> q = 1)
        /\ {players[q].order : q \in PlayerIds} = 0..(Len(players) - 1)

\* Two players joined the owner, the last while round 1 was being played.
C13_Witness ==
    /\ origin = "new_game" /\ Len(players) = 3 /\ Len(rounds) >= 2
    /\ last.op = "add_player"

CurrentRoundIsNew == current_round # 0 /\ RoundStatus(current_round) = "new"

\* C14: add_player seats the player; it deals (filling the joiner's hand
\* when the pool suffices) exactly when the current round exists and is
\* NEW, and otherwise leaves the pool and every hand alone.
C14_AddPlayerDealsOnNewRound ==
    [][last'.op = "add_player" =>
        LET joiner == Len(players) + 1
            seated == Append(players, NewPlayer(Len(players), FALSE))
        IN  /\ Len(players') = joiner
            /\ \A q \in PlayerIds : players'[q].hand = players[q].hand
            /\ (CurrentRoundIsNew /\ ~DealFails(seated, pool)) =>
                  /\ Cardinality(players'[joiner].hand) = GAME_HAND_SIZE
                  /\ players'[joiner].hand \subseteq pool
                  /\ pool' = pool \ players'[joiner].hand
            /\ ~CurrentRoundIsNew =>
                  (pool' = pool /\ players'[joiner].hand = {})]_vars

\* A player joined a round under way: no hand, though the pool had tokens.
C14_Witness ==
    /\ last = [op |-> "add_player", ret |-> "player"]
    /\ current_round # 0 /\ RoundStatus(current_round) = "in_progress"
    /\ players[Len(players)].hand = {} /\ pool # {}

\* C15: an add_player call whose deal fails with DeckExhausted leaves the
\* game as it was: same players, same order indices, same pool.
C15_FailedAddPlayerChangesNothing ==
    [][AddPlayerDealFails =>
          (last'.ret = "DeckExhausted" /\ UNCHANGED game)]_vars

\* C16: a player's score starts at 0, never decreases, and changes only
\* in complete_round.
C16_ScoresOnlyGrowByScoring ==
    [][/\ \A q \in PlayerIds :
            /\ players'[q].score >= players[q].score
            /\ last'.op # "complete_round" => players'[q].score = players[q].score
       /\ \A q \in (1..Len(players')) \ PlayerIds : players'[q].score = 0]_vars

\* A round was added and a player seated after points had been scored.
C16_Witness ==
    /\ last.op = "add_player" /\ Len(rounds) >= 2
    /\ \E q \in PlayerIds : players[q].score > 0
    /\ players[Len(players)].score = 0

\* C17: a successful complete_round changes scores only: rounds, plays,
\* the pool, the players' order, owner flag and hand and the current round
\* stay, and so does the score of a player who earned nothing.
C17_ScoringFrame ==
    [][Scored =>
        /\ rounds' = rounds /\ plays' = plays /\ pool' = pool
        /\ current_round' = current_round
        /\ Len(players') = Len(players)
        /\ \A q \in PlayerIds :
              /\ players'[q] = [players[q] EXCEPT !.score = players'[q].score]
              /\ RoundDelta(q) = 0 => players'[q].score = players[q].score]_vars

\* A scored round in which one player earned points and another none.
C17_Witness ==
    /\ JustScored
    /\ \E q, t \in PlayerIds :
          /\ RoundDelta(q) = 0 /\ players[q].score = 0
          /\ RoundDelta(t) > 0 /\ players[t].score > 0

OwnerOfChosen(q) ==
    (CHOOSE o \in PlaysOf(current_round) :
        o.card_provided = PlayOfPlayer(q).card_chosen).player

C19_NeverNewAgain ==
    [][(origin = "new_game" /\ status # "new") => (status # "new")']_vars

\* A later round is new while the game is ongoing.
C19_Witness ==
    /\ origin = "new_game" /\ Len(rounds) >= 2
    /\ RoundStatus(current_round) = "new" /\ status = "ongoing"

\* C20: with only the deal of add_round serialized, two interleaved
\* add_round calls leave the round numbers unique and contiguous: no two
\* rounds share a number and no number is skipped.
C20_InterleavedAddRoundKeepsNumbers ==
    /\ \A r, t \in RoundIds : rounds[r].number = rounds[t].number => r = t
    /\ {rounds[r].number : r \in RoundIds} = 0..(Len(rounds) - 1)

====
